---- MODULE Spec2Model ----
(***************************************************************************)
(* Model of metadata_schema/BasicProfileSchema.py: the BasicProfile        *)
(* record, a pydantic BaseModel, and the validation that building a        *)
(* BasicProfile from a keyed mapping performs.  The class docstring's      *)
(* example (omitted Optional fields become None, the default of            *)
(* organization is printed as 1) fixes the pydantic semantics: omitted     *)
(* Optional fields are not required and defaults are not validated.        *)
(* The sub-record schemas (Person, Identifier, Resources, References,      *)
(* RelatedCatalogItem) are imported from modules outside this file; they   *)
(* are modelled by their contract: a mapping is accepted or refused with   *)
(* errors under the keys it is bad in.                                     *)
(*                                                                         *)
(* Python values are records [t, v]: t is the Python type, v the payload.  *)
(* A key that the input mapping does not hold has the value Absent; a key  *)
(* holding Python's None has the value None.  A field is "present" when    *)
(* its key is supplied with a value other than None.                       *)
(***************************************************************************)
EXTENDS Integers, Sequences, FiniteSets, TLC

VARIABLES raw, pc, record, errors, dumped, record2, errors2

vars == <<raw, pc, record, errors, dumped, record2, errors2>>

(***************************************************************************)
(* Bounds of the explored inputs.                                          *)
(***************************************************************************)
\* how many keys of an input differ from the docstring example's mapping
MaxEdits == 3
\* length of the sequences supplied for author
MaxLen == 2

(***************************************************************************)
(* Python values.                                                          *)
(***************************************************************************)
Absent == [t |-> "absent", v |-> 0]
None == [t |-> "none", v |-> 0]
StrV(s) == [t |-> "str", v |-> s]
IntV(i) == [t |-> "int", v |-> i]
BoolV(b) == [t |-> "bool", v |-> b]
ListV(s) == [t |-> "list", v |-> s]
\* a member of a str-mixin Enum class: <<class, value>>
EnumMember(cls, s) == [t |-> "enum", v |-> <<cls, s>>]
\* a pydantic HttpUrl object (a str subclass) holding the url text
HttpUrl(s) == [t |-> "url", v |-> s]
\* a raw mapping handed to a sub-record schema; bad is the set of its keys
\* that the sub-record's own validator rejects
Dict(bad) == [t |-> "dict", v |-> bad]
\* a validated instance of a sub-record schema
Instance(cls) == [t |-> "model", v |-> cls]

\* the value validation leaves for a field whose validation failed
NoValue == Absent

(***************************************************************************)
(* The enumerations.                                                       *)
(***************************************************************************)
ModelTypeEnumLoose == {"model", "framework", "tool", "testbed", "simulation"}

ModelTypeEnum == {"model", "framework", "tool", "testbed"}

TypeKeywordEnumLoose ==
    {"Analytical", "Conceptual", "Data-Driven", "Deterministic", "Empirical",
     "Geospatial", "Mathematical", "Numerical", "Mechanistic", "Physics-based",
     "Process-based", "Statistical", "Stochastic", "stochastic"}

TypeKeywordEnum ==
    {"Analytical", "Conceptual", "Data-Driven", "Deterministic", "Empirical",
     "Geospatial", "Mathematical", "Numerical", "Mechanistic", "Physics-based",
     "Process-based", "Statistical", "Stochastic"}

EnumValues(cls) ==
    IF cls = "ModelTypeEnum" THEN ModelTypeEnum ELSE TypeKeywordEnum

(***************************************************************************)
(* The declared fields of BasicProfile, in declaration order.              *)
(***************************************************************************)
Fields ==
    << "item_type", "name", "description", "organization",
       "external_organization_name", "release_date", "last_update",
       "subtitle", "author", "contact", "version", "how_to_cite",
       "usgs_missionarea", "identifier", "programming_language", "license",
       "resources", "references", "science_keywords", "type_keywords",
       "other_keywords", "image", "related_catalog_item" >>

FieldNames == {Fields[i] : i \in 1..Len(Fields)}

\* the fields annotated with each type; every other field is str
HttpUrlFieldsNone == {}

HttpUrlFields == {"image"}

PersonListFieldsAuthorOnly == {"author"}

PersonListFields == {"author", "contact"}

\* the annotation of a field: its outer shape and the class it names
FieldType(f) ==
    CASE f = "item_type" -> [shape |-> "enum", cls |-> "ModelTypeEnum"]
      [] f = "organization" -> [shape |-> "bool", cls |-> ""]
      [] f \in PersonListFields -> [shape |-> "list_model", cls |-> "Person"]
      [] f = "identifier" -> [shape |-> "list_model", cls |-> "Identifier"]
      [] f = "resources" -> [shape |-> "model", cls |-> "Resources"]
      [] f = "references" -> [shape |-> "model", cls |-> "References"]
      [] f = "related_catalog_item" -> [shape |-> "model", cls |-> "RelatedCatalogItem"]
      [] f = "science_keywords" -> [shape |-> "list_str", cls |-> ""]
      [] f = "type_keywords" -> [shape |-> "enum", cls |-> "TypeKeywordEnum"]
      [] f \in HttpUrlFields -> [shape |-> "url", cls |-> "HttpUrl"]
      [] OTHER -> [shape |-> "str", cls |-> ""]

\* the value a field is declared with ("= ..."); Absent when none is declared
FieldDefaultNoLicense(f) ==
    CASE f = "item_type" -> StrV("model")
      [] f = "organization" -> IntV(1)
      [] OTHER -> Absent

FieldDefaultBadItemType(f) ==
    CASE f = "item_type" -> StrV("Model")
      [] f = "organization" -> IntV(1)
      [] f = "license" -> StrV("CC0")
      [] OTHER -> Absent

FieldDefault(f) ==
    CASE f = "item_type" -> StrV("model")
      [] f = "organization" -> IntV(1)
      [] f = "license" -> StrV("CC0")
      [] OTHER -> Absent

\* Optional[...] in the annotation
IsOptional(f) == f \notin {"item_type", "name", "description", "organization"}

\* pydantic: a field with neither Optional[...] nor a default is required
RequiredOnlyDescription(f) == f = "description"

Required(f) == ~IsOptional(f) /\ FieldDefault(f) = Absent

\* pydantic: None is accepted for Optional[...] fields
AllowNoneEverywhere(f) == TRUE

AllowNone(f) == IsOptional(f)

\* the value an omitted field takes: its declared default, else None
GetDefault(f) == IF FieldDefault(f) = Absent THEN None ELSE FieldDefault(f)

(***************************************************************************)
(* Errors.  An error is [loc, type]: loc is the path of the value that     *)
(* failed (field name, then sequence indexes and sub-record keys), type is *)
(* pydantic's error type.                                                  *)
(***************************************************************************)
Error(loc, type) == [loc |-> loc, type |-> type]

\* the outcome of validating one value: the coerced value and its errors
Ok(val) == [val |-> val, errs |-> << >>]
Fail(val, errs) == [val |-> val, errs |-> errs]

(***************************************************************************)
(* The validators pydantic runs for each annotated type.                   *)
(***************************************************************************)
\* str: text is kept, a str-mixin Enum member gives its value, numbers are
\* formatted, anything else is refused
str_validator(val, loc) ==
    CASE val.t \in {"str", "url"} -> Ok(StrV(val.v))
      [] val.t = "enum" -> Ok(StrV(val.v[2]))
      [] val.t = "int" -> Ok(StrV(ToString(val.v)))
      [] val.t = "bool" -> Ok(StrV(IF val.v THEN "True" ELSE "False"))
      [] OTHER -> Fail(val, << Error(loc, "type_error.str") >>)

BOOL_TRUE == {IntV(1), StrV("1"), StrV("on"), StrV("t"), StrV("true"),
              StrV("y"), StrV("yes")}
BOOL_FALSE == {IntV(0), StrV("0"), StrV("off"), StrV("f"), StrV("false"),
               StrV("n"), StrV("no")}

\* str.lower() on the texts the inputs hold
Lower(s) ==
    CASE s = "YES" -> "yes"
      [] s = "Maybe" -> "maybe"
      [] OTHER -> s

\* bool: True/False are kept, the listed numbers and texts (case-folded)
\* are converted, anything else is refused
bool_validator(val, loc) ==
    LET w == IF val.t = "str" THEN StrV(Lower(val.v)) ELSE val IN
    CASE val.t = "bool" -> Ok(val)
      [] w \in BOOL_TRUE -> Ok(BoolV(TRUE))
      [] w \in BOOL_FALSE -> Ok(BoolV(FALSE))
      [] OTHER -> Fail(val, << Error(loc, "type_error.bool") >>)

\* Enum: the member whose value equals the input exactly, else refused
enum_member_validator(cls, val, loc) ==
    LET text == CASE val.t = "str" -> val.v
                  [] val.t = "enum" -> val.v[2]
                  [] OTHER -> ""
    IN  IF val.t \in {"str", "enum"} /\ text \in EnumValues(cls)
        THEN Ok(EnumMember(cls, text))
        ELSE Fail(val, << Error(loc, "type_error.enum") >>)

\* the parts pydantic's url pattern finds in the texts the inputs hold:
\* scheme ("" when none), whether a host follows, whether the host ends in
\* a top-level domain
UrlParts(s) ==
    CASE s = "https://www.usgs.gov/coawst.png" ->
            [scheme |-> "https", host |-> TRUE, tld |-> TRUE]
      [] s = "http://code.usgs.gov/img/header.jpg" ->
            [scheme |-> "http", host |-> TRUE, tld |-> TRUE]
      [] s = "ftp://ftp.usgs.gov/coawst.png" ->
            [scheme |-> "ftp", host |-> TRUE, tld |-> TRUE]
      [] s = "http://localhost/coawst.png" ->
            [scheme |-> "http", host |-> TRUE, tld |-> FALSE]
      [] s = "https:///coawst.png" ->
            [scheme |-> "https", host |-> FALSE, tld |-> FALSE]
      [] OTHER -> [scheme |-> "", host |-> FALSE, tld |-> FALSE]

\* HttpUrl: an HttpUrl object is kept; otherwise the value must be text
\* with scheme http or https and a host that has a top-level domain
HttpUrl_validate(val, loc) ==
    IF val.t = "url" THEN Ok(val)
    ELSE LET s == str_validator(val, loc) IN
         IF s.errs # << >> THEN s
         ELSE LET parts == UrlParts(s.val.v) IN
              CASE parts.scheme = "" ->
                     Fail(val, << Error(loc, "value_error.url.scheme") >>)
                [] parts.scheme \notin {"http", "https"} ->
                     Fail(val, << Error(loc, "value_error.url.scheme") >>)
                [] ~parts.host ->
                     Fail(val, << Error(loc, "value_error.url.host") >>)
                [] ~parts.tld ->
                     Fail(val, << Error(loc, "value_error.url.host") >>)
                [] OTHER -> Ok(HttpUrl(s.val.v))

\* the key of each sub-record schema that the inputs may hold a bad value for
SubRecordKeys(cls) ==
    CASE cls = "Person" -> {"email"}
      [] cls = "Identifier" -> {"identifier"}
      [] cls = "Resources" -> {"url"}
      [] cls = "References" -> {"url"}
      [] OTHER -> {"name"}

RECURSIVE SetToSeq(_)
SetToSeq(S) ==
    IF S = {} THEN << >>
    ELSE LET x == CHOOSE y \in S : TRUE IN << x >> \o SetToSeq(S \ {x})

\* a sub-record schema (Person, Identifier, Resources, References,
\* RelatedCatalogItem): an instance is kept, a mapping is validated by the
\* sub-record's own validator, whose errors come back under loc; anything
\* else is refused
SubRecord_validate(cls, val, loc) ==
    CASE val.t = "model" /\ val.v = cls -> Ok(val)
      [] val.t = "dict" ->
           IF val.v = {} THEN Ok(Instance(cls))
           ELSE LET keys == SetToSeq(val.v) IN
                Fail(val, [i \in 1..Len(keys) |->
                             Error(loc \o << keys[i] >>, "value_error")])
      [] OTHER -> Fail(val, << Error(loc, "type_error.dict") >>)

\* the validator of one (non-sequence) value of the given shape
validate_singleton(shape, cls, val, loc) ==
    CASE shape = "str" -> str_validator(val, loc)
      [] shape = "bool" -> bool_validator(val, loc)
      [] shape = "enum" -> enum_member_validator(cls, val, loc)
      [] shape = "url" -> HttpUrl_validate(val, loc)
      [] shape = "model" -> SubRecord_validate(cls, val, loc)
      [] OTHER -> Ok(val)

RECURSIVE Flatten(_)
Flatten(ss) == IF ss = << >> THEN << >> ELSE Head(ss) \o Flatten(Tail(ss))

\* List[...]: the value must be a sequence; every element is validated at
\* loc + its (0-based) index and all the elements' errors are kept
validate_sequence_like(shape, cls, val, loc) ==
    IF val.t # "list" THEN Fail(val, << Error(loc, "type_error.list") >>)
    ELSE LET each == [i \in 1..Len(val.v) |->
                        validate_singleton(shape, cls, val.v[i], loc \o << i - 1 >>)]
             errs == Flatten([i \in 1..Len(val.v) |-> each[i].errs])
         IN  IF errs # << >> THEN Fail(val, errs)
             ELSE Ok(ListV([i \in 1..Len(val.v) |-> each[i].val]))

\* ModelField.validate: None is accepted or refused before any validator
\* runs; otherwise the annotated type's validator decides
ModelField_validate(f, val) ==
    LET ty == FieldType(f)
        loc == << f >>
    IN  CASE val = None ->
               IF AllowNone(f) THEN Ok(None)
               ELSE Fail(val, << Error(loc, "type_error.none.not_allowed") >>)
          [] ty.shape = "list_model" ->
               validate_sequence_like("model", ty.cls, val, loc)
          [] ty.shape = "list_str" ->
               validate_sequence_like("str", "", val, loc)
          [] OTHER -> validate_singleton(ty.shape, ty.cls, val, loc)

\* what validate_model does for one field: an omitted required field is an
\* error, an omitted field with a default takes it unvalidated, a supplied
\* value is validated
FieldOutcome(f, input) ==
    IF input[f] = Absent
    THEN IF Required(f)
         THEN Fail(NoValue, << Error(<< f >>, "value_error.missing") >>)
         ELSE Ok(GetDefault(f))
    ELSE LET r == ModelField_validate(f, input[f]) IN
         IF r.errs # << >> THEN Fail(NoValue, r.errs) ELSE r

\* validate_model: every declared field is processed, in declaration
\* order, and the errors of all of them are collected
validate_model_first_error(input) ==
    LET bad == {i \in 1..Len(Fields) : FieldOutcome(Fields[i], input).errs # << >>}
        first == CHOOSE i \in bad : \A j \in bad : i <= j
    IN  [values |-> [f \in FieldNames |-> FieldOutcome(f, input).val],
         errs |-> IF bad = {} THEN << >>
                  ELSE FieldOutcome(Fields[first], input).errs]

validate_model(input) ==
    [values |-> [f \in FieldNames |-> FieldOutcome(f, input).val],
     errs |-> Flatten([i \in 1..Len(Fields) |-> FieldOutcome(Fields[i], input).errs])]

\* BaseModel.dict(): the record as a keyed mapping; sub-record instances
\* become mappings, every other value is handed over as it is
DictValue(val) ==
    CASE val.t = "model" -> Dict({})
      [] val.t = "list" ->
           ListV([i \in 1..Len(val.v) |->
                    IF val.v[i].t = "model" THEN Dict({}) ELSE val.v[i]])
      [] OTHER -> val

BaseModel_dict(rec) == [f \in FieldNames |-> DictValue(rec[f])]

\* Python's == on two values: bool is a number, a str-mixin Enum member and
\* an HttpUrl compare as their text
PyKey(val) ==
    CASE val.t = "bool" -> IntV(IF val.v THEN 1 ELSE 0)
      [] val.t = "enum" -> StrV(val.v[2])
      [] val.t = "url" -> StrV(val.v)
      [] OTHER -> val

PyEq(a, b) == PyKey(a) = PyKey(b)

\* BaseModel.__eq__: the two records' dict() are equal
BaseModel_eq(r1, r2) ==
    \A f \in FieldNames : PyEq(DictValue(r1[f]), DictValue(r2[f]))

(***************************************************************************)
(* Building a BasicProfile.                                                *)
(***************************************************************************)
\* no record: what the caller holds when construction raised
NoRecord == [f \in FieldNames |-> Absent]

\* BaseModel.__init__: validate the mapping; raise the collected errors if
\* there are any, otherwise the record holds the validated values
BaseModel_init_keep(input) ==
    LET r == validate_model(input) IN
    [raised |-> FALSE, record |-> r.values, errors |-> r.errs]

BaseModel_init(input) ==
    LET r == validate_model(input) IN
    IF r.errs # << >>
    THEN [raised |-> TRUE, record |-> NoRecord, errors |-> r.errs]
    ELSE [raised |-> FALSE, record |-> r.values, errors |-> << >>]

(***************************************************************************)
(* The error kinds of the specification's taxonomy, by pydantic error.     *)
(***************************************************************************)
SubRecordFields ==
    {"author", "contact", "identifier", "resources", "references",
     "related_catalog_item"}

ErrorKind(e) ==
    CASE e.type = "value_error.missing" -> "MissingRequiredField"
      [] e.type = "type_error.none.not_allowed" ->
           IF e.loc[1] \in {"name", "description"}
           THEN "MissingRequiredField" ELSE "TypeMismatch"
      [] e.type = "type_error.enum" -> "InvalidEnumValue"
      [] e.type \in {"value_error.url.scheme", "value_error.url.host"} ->
           "MalformedURL"
      [] e.loc[1] \in SubRecordFields /\ e.type # "type_error.list" ->
           "NestedValidationFailure"
      [] OTHER -> "TypeMismatch"

(***************************************************************************)
(* The inputs explored.                                                    *)
(***************************************************************************)
\* the mapping of the class docstring's example, without its item_type
Example ==
    [f \in FieldNames |->
       CASE f = "name" -> StrV("COAWST")
         [] f = "description" -> StrV("sample description")
         [] OTHER -> Absent]

\* a value no text validator accepts
NotText == ListV(<< IntV(1) >>)

\* the sequences of n valid Person mappings, and those with one of the n
\* replaced by a mapping whose email is bad
PersonLists(n) ==
    {ListV([i \in 1..n |-> Dict({})])} \cup
    {ListV([i \in 1..n |-> IF i = k THEN Dict({"email"}) ELSE Dict({})])
       : k \in 1..n}

PlainTextFields ==
    {"external_organization_name", "release_date", "last_update", "subtitle",
     "version", "how_to_cite", "usgs_missionarea", "programming_language",
     "other_keywords"}

\* the values an input may give a key instead of the example's
Alternatives(f) ==
    CASE f = "name" -> {Absent, None, StrV(""), NotText}
      [] f = "description" -> {Absent, None, StrV("")}
      [] f = "item_type" ->
           {None, StrV("model"), StrV("testbed"), StrV("simulation")}
      [] f = "organization" ->
           {None, BoolV(FALSE), StrV("YES"), StrV("Maybe")}
      [] f = "subtitle" -> {None, StrV("ocean model"), IntV(5), NotText}
      [] f \in PlainTextFields -> {StrV("text")}
      [] f = "license" -> {None, StrV("MIT")}
      [] f = "author" -> {Dict({})} \cup PersonLists(MaxLen)
      [] f = "contact" -> {ListV(<< Dict({}), Dict({"email"}) >>)}
      [] f = "identifier" -> {ListV(<< Dict({"identifier"}) >>)}
      [] f = "resources" -> {Dict({}), Dict({"url"})}
      [] f = "references" -> {Dict({"url"}), StrV("text")}
      [] f = "related_catalog_item" -> {Dict({"name"})}
      [] f = "science_keywords" ->
           {StrV("hydrology"), ListV(<< StrV("hydrology") >>),
            ListV(<< StrV("hydrology"), NotText >>)}
      [] f = "type_keywords" ->
           {None, StrV("Stochastic"), StrV("stochastic"), StrV("Physics-based")}
      [] f = "image" ->
           {StrV("https://www.usgs.gov/coawst.png"), StrV("not-a-url"),
            StrV("ftp://ftp.usgs.gov/coawst.png"), NotText}
      [] OTHER -> {}

\* the position of a field in the declaration order
Index(f) == CHOOSE i \in 1..Len(Fields) : Fields[i] = f

\* the keys in which a mapping differs from Example
Edited(m) == {f \in FieldNames : m[f] # Example[f]}

(***************************************************************************)
(* The state machine: a caller prepares a mapping, builds a BasicProfile    *)
(* from it, serialises the record with dict() and builds a BasicProfile    *)
(* again.                                                                  *)
(***************************************************************************)
Init ==
    /\ raw = Example
    /\ pc = "input"
    /\ record = NoRecord
    /\ errors = << >>
    /\ dumped = NoRecord
    /\ record2 = NoRecord
    /\ errors2 = << >>

\* the caller sets, replaces or drops one key of the mapping; keys are
\* written in declaration order
Supply ==
    /\ pc = "input"
    /\ Cardinality(Edited(raw)) < MaxEdits
    /\ \E f \in FieldNames :
         /\ \A g \in Edited(raw) : Index(g) < Index(f)
         /\ \E a \in Alternatives(f) : raw' = [raw EXCEPT ![f] = a]
    /\ UNCHANGED <<pc, record, errors, dumped, record2, errors2>>

\* BasicProfile(**raw)
Validate ==
    /\ pc = "input"
    /\ \E r \in {BaseModel_init(raw)} :
       /\ pc' = IF r.raised THEN "raised" ELSE "constructed"
       /\ record' = r.record
       /\ errors' = r.errors
    /\ UNCHANGED <<raw, dumped, record2, errors2>>

\* record.dict()
Serialize ==
    /\ pc = "constructed"
    /\ dumped' = BaseModel_dict(record)
    /\ pc' = "dumped"
    /\ UNCHANGED <<raw, record, errors, record2, errors2>>

\* BasicProfile(**dumped)
Revalidate ==
    /\ pc = "dumped"
    /\ \E r \in {BaseModel_init(dumped)} :
       /\ pc' = IF r.raised THEN "reraised" ELSE "reconstructed"
       /\ record2' = r.record
       /\ errors2' = r.errors
    /\ UNCHANGED <<raw, record, errors, dumped>>

Next == Supply \/ Validate \/ Serialize \/ Revalidate

Spec == Init /\ [][Next]_vars

(***************************************************************************)
(* Vocabulary of the properties.                                           *)
(***************************************************************************)
\* construction has been attempted on raw
Validated == pc # "input"
\* construction returned a record / raised the error report
Succeeded == pc \in {"constructed", "dumped", "reconstructed", "reraised"}
RaisedErrors == pc = "raised"

\* the key holds a value other than None
Present(f) == raw[f] \notin {Absent, None}

\* the errors reported under a field
ErrorsAt(f) == {i \in 1..Len(errors) : errors[i].loc[1] = f}

\* the field's own validation accepts what raw holds for it
FieldValid(f) == FieldOutcome(f, raw).errs = << >>

ItemTypeValues == {"model", "framework", "tool", "testbed"}

TypeKeywordValues ==
    {"Analytical", "Conceptual", "Data-Driven", "Deterministic", "Empirical",
     "Geospatial", "Mathematical", "Numerical", "Mechanistic", "Physics-based",
     "Process-based", "Statistical", "Stochastic"}

\* the texts of the inputs that are well-formed URLs
WellFormedUrls ==
    {"https://www.usgs.gov/coawst.png", "ftp://ftp.usgs.gov/coawst.png"}

(***************************************************************************)
(* C1: when name and description are present and valid texts and every     *)
(* other declared field is absent, construction succeeds and the record    *)
(* has item_type == "model", license == "CC0", organization == True and    *)
(* every other optional field None.                                        *)
(***************************************************************************)
C1_OnlyRequired ==
    /\ raw["name"].t = "str"
    /\ raw["description"].t = "str"
    /\ \A f \in FieldNames \ {"name", "description"} : raw[f] = Absent

C1_Defaults ==
    (Validated /\ C1_OnlyRequired) =>
        /\ Succeeded
        /\ PyEq(record["item_type"], StrV("model"))
        /\ PyEq(record["license"], StrV("CC0"))
        /\ PyEq(record["organization"], BoolV(TRUE))
        /\ PyEq(record["name"], raw["name"])
        /\ PyEq(record["description"], raw["description"])
        /\ \A f \in FieldNames \ {"name", "description", "item_type",
                                  "license", "organization"} :
              record[f] = None

C1_Witness == pc = "constructed" /\ raw = Example

(***************************************************************************)
(* C2: when item_type is present and not one of model, framework, tool,    *)
(* testbed, and every other field is valid, construction fails and the     *)
(* report holds exactly one InvalidEnumValue error, on item_type.          *)
(***************************************************************************)
C2_BadItemType ==
    /\ Present("item_type")
    /\ raw["item_type"] \notin {StrV(x) : x \in ItemTypeValues}
    /\ \A f \in FieldNames \ {"item_type"} : FieldValid(f)

C2_OneEnumError ==
    (Validated /\ C2_BadItemType) =>
        /\ RaisedErrors
        /\ Cardinality({i \in 1..Len(errors) :
                          ErrorKind(errors[i]) = "InvalidEnumValue"}) = 1
        /\ \A i \in 1..Len(errors) :
              ErrorKind(errors[i]) = "InvalidEnumValue" =>
                  errors[i].loc = << "item_type" >>

C2_Witness ==
    /\ RaisedErrors
    /\ raw["item_type"] = StrV("simulation")
    /\ raw["subtitle"] = IntV(5)
    /\ Len(errors) = 1

(***************************************************************************)
(* C3: when name or description is missing, construction fails with one    *)
(* MissingRequiredField error for each missing field; when both are        *)
(* missing the report holds both.                                          *)
(***************************************************************************)
C3_MissingRequired ==
    Validated =>
        \A f \in {"name", "description"} :
            raw[f] = Absent =>
                /\ RaisedErrors
                /\ Cardinality(ErrorsAt(f)) = 1
                /\ \A i \in ErrorsAt(f) :
                      /\ errors[i].loc = << f >>
                      /\ ErrorKind(errors[i]) = "MissingRequiredField"

C3_Witness ==
    /\ RaisedErrors
    /\ raw["name"] = Absent
    /\ raw["description"] = Absent
    /\ Len(errors) = 2

(***************************************************************************)
(* C4: round trip: for a record that construction returned, building a     *)
(* record from its dict() succeeds and gives a record equal (==) to it.    *)
(***************************************************************************)
C4_RoundTrip ==
    pc \in {"reconstructed", "reraised"} =>
        /\ pc = "reconstructed"
        /\ errors2 = << >>
        /\ BaseModel_eq(record, record2)

C4_Witness ==
    /\ pc = "reconstructed"
    /\ raw["item_type"] = Absent
    /\ raw["organization"] = StrV("YES")
    /\ raw["author"] # Absent
    /\ raw["image"] # Absent

(***************************************************************************)
(* C5: construction is all-or-nothing: it either returns a complete record *)
(* and no error, or a non-empty error report and no record; a record is    *)
(* returned exactly when no field is in error, and every value of a        *)
(* returned record is valid for its field.                                 *)
(***************************************************************************)
C5_AllOrNothing ==
    Validated =>
        /\ Succeeded \/ RaisedErrors
        /\ Succeeded <=> (\A f \in FieldNames : FieldValid(f))
        /\ Succeeded =>
              /\ errors = << >>
              /\ \A f \in FieldNames :
                    /\ record[f] # NoValue
                    /\ ModelField_validate(f, record[f]).errs = << >>
        /\ RaisedErrors => errors # << >> /\ record = NoRecord

C5_Witness ==
    /\ RaisedErrors
    /\ record = NoRecord
    /\ Len(errors) = 1
    /\ Cardinality(Edited(raw)) = 3

(***************************************************************************)
(* C6: errors are accumulated across fields: every field that is invalid   *)
(* on its own has an error in the report, under that field's path.         *)
(***************************************************************************)
C6_Accumulates ==
    Validated =>
        \A f \in FieldNames :
            ~FieldValid(f) =>
                /\ RaisedErrors
                /\ ErrorsAt(f) # {}
                /\ \A i \in 1..Len(FieldOutcome(f, raw).errs) :
                      \E j \in ErrorsAt(f) :
                          errors[j] = FieldOutcome(f, raw).errs[i]

C6_Witness ==
    /\ RaisedErrors
    /\ raw["name"] = Absent
    /\ raw["item_type"] = StrV("simulation")
    /\ raw["image"] = StrV("not-a-url")
    /\ ErrorsAt("name") # {}
    /\ ErrorsAt("item_type") # {}
    /\ ErrorsAt("image") # {}

(***************************************************************************)
(* C7: type_keywords, when present, is accepted only if it is exactly one  *)
(* of the thirteen canonical values; any other text, a different-case      *)
(* spelling included, fails construction with an InvalidEnumValue error;   *)
(* an absent type_keywords causes no error.                                *)
(***************************************************************************)
C7_TypeKeywords ==
    Validated =>
        /\ (Present("type_keywords") /\ Succeeded) =>
              raw["type_keywords"] \in {StrV(x) : x \in TypeKeywordValues}
        /\ (Present("type_keywords")
            /\ raw["type_keywords"] \notin {StrV(x) : x \in TypeKeywordValues}) =>
              /\ RaisedErrors
              /\ \E i \in ErrorsAt("type_keywords") :
                    /\ errors[i].loc = << "type_keywords" >>
                    /\ ErrorKind(errors[i]) = "InvalidEnumValue"
        /\ ~Present("type_keywords") => ErrorsAt("type_keywords") = {}

C7_Witness ==
    /\ RaisedErrors
    /\ raw["type_keywords"] = StrV("stochastic")
    /\ Len(errors) = 1

(***************************************************************************)
(* C8: a record is returned only if every present sub-record is valid      *)
(* under its own validator; the error of a failing sub-record is reported  *)
(* as a NestedValidationFailure under the containing field and, in a       *)
(* sequence, the element's index.                                          *)
(***************************************************************************)
\* the sub-record's own validator refuses the value
SubRecordInvalid(val) == val.t # "model" /\ ~(val.t = "dict" /\ val.v = {})

C8_Nested ==
    Validated =>
        /\ \A f \in {"author", "contact", "identifier"} :
              raw[f].t = "list" =>
                  \A k \in 1..Len(raw[f].v) :
                      SubRecordInvalid(raw[f].v[k]) =>
                          /\ RaisedErrors
                          /\ \E i \in ErrorsAt(f) :
                                /\ Len(errors[i].loc) >= 2
                                /\ errors[i].loc[2] = k - 1
                                /\ ErrorKind(errors[i]) = "NestedValidationFailure"
        /\ \A f \in {"resources", "references", "related_catalog_item"} :
              (Present(f) /\ SubRecordInvalid(raw[f])) =>
                  /\ RaisedErrors
                  /\ \E i \in ErrorsAt(f) :
                        ErrorKind(errors[i]) = "NestedValidationFailure"

C8_Witness ==
    /\ RaisedErrors
    /\ raw["contact"] = ListV(<< Dict({}), Dict({"email"}) >>)
    /\ raw["resources"] = Dict({"url"})
    /\ \E i \in 1..Len(errors) : errors[i].loc = << "contact", 1, "email" >>
    /\ \E i \in 1..Len(errors) : errors[i].loc = << "resources", "url" >>

(***************************************************************************)
(* C9, as claimed: construction succeeds only if name and description are  *)
(* present, not None and not the empty string.                             *)
(***************************************************************************)
C9_NonEmptyRequired ==
    Succeeded =>
        \A f \in {"name", "description"} :
            Present(f) /\ raw[f] # StrV("")

(***************************************************************************)
(* C9, amended: construction succeeds only if name and description are     *)
(* present and not None; the empty string is accepted for either and kept  *)
(* as the field's value.                                                   *)
(***************************************************************************)
C9_PresentRequired ==
    Validated =>
        \A f \in {"name", "description"} :
            /\ Succeeded => Present(f)
            /\ raw[f] = StrV("") =>
                  /\ ErrorsAt(f) = {}
                  /\ Succeeded => record[f] = StrV("")
                  /\ (\A g \in FieldNames : FieldValid(g)) => Succeeded

C9_Witness ==
    /\ pc = "constructed"
    /\ raw["name"] = StrV("")
    /\ record["name"] = StrV("")

(***************************************************************************)
(* C10, as claimed: whenever image is present and not a well-formed URL,   *)
(* construction fails with a MalformedURL error on image.                  *)
(***************************************************************************)
C10_NotWellFormed ==
    /\ Present("image")
    /\ ~(raw["image"].t = "str" /\ raw["image"].v \in WellFormedUrls)

====
